---- MODULE Spec2Model ----
(***************************************************************************)
(* A model of spinup (src/spinup.py): a command-line tool that provisions  *)
(* and manages clusters of libvirt domains.                                *)
(*                                                                         *)
(* One command-line invocation runs at a time (pc is the position of its   *)
(* main process); during create and destroy a pool of worker processes     *)
(* runs beside it.  The hypervisor is the environment: it completes run    *)
(* and stop requests, hands out DHCP leases, opens the guests' ssh port,   *)
(* and may hold domains that other tools defined.                          *)
(*                                                                         *)
(* Strings the code inspects character by character (descriptor tokens)    *)
(* are tuples of one-character strings.                                    *)
(***************************************************************************)
EXTENDS Integers, Sequences, FiniteSets, TLC

VARIABLES
    dom,        \* the hypervisor's domains: id -> definition and run state
    files,      \* the disk-image and config-drive files under BASE_IMAGE_DIR
    images,     \* the base-image files under BASE_IMAGE_DIR
    partial,    \* those of them whose content is not complete
    pc,         \* position of the invocation's main process
    cmd,        \* verb of the current (or last) invocation
    cwd,        \* its working directory
    argv,       \* its arguments after the verb
    cluster,    \* what get_current_cluster returned to it
    targets,    \* the (domain, machine) pairs start/shutdown/status act on
    outcome,    \* how the invocation ended: message and exit code
    machines,   \* create: the batch of parsed machines
    wpc,        \* create: position of each create_single_vm worker
    got,        \* create: the path get_image returned to each worker
    fpc,        \* create: position of the fetch_image worker
    fcur,       \* create: the request fetch_image is serving
    reqQ,       \* image_fetch_request_queue
    resQ,       \* image_fetch_result_queue
    downloads,  \* create: network downloads performed, per os variant
    dpc,        \* destroy: position of each destroy_single_vm worker
    destroyed,  \* history: paths whose cluster destroy removed, until the
                \* next create there provisions
    pin,        \* descriptor group handed to get_machine (parser harness)
    pout        \* what get_machine made of it

vars == <<dom, files, images, partial, pc, cmd, cwd, argv, cluster, targets, outcome,
          machines, wpc, got, fpc, fcur, reqQ, resQ, downloads, dpc, destroyed,
          pin, pout>>

(***************************************************************************)
(* Bounds of the model.                                                    *)
(***************************************************************************)
MaxMachines == 2    \* descriptor groups in one create batch
MaxForeign == 1     \* domains defined by other tools
MaxTokens == 2      \* tokens in a descriptor group of the parser harness
MaxBatch == 3       \* machines of a batch in the image-acquisition runs

NoToken == <<>>               \* an error message that names no descriptor
NoMatch == [hit |-> FALSE]    \* fullmatch returned None
NotParsed == [ok |-> FALSE, error |-> "none", token |-> NoToken]

(***************************************************************************)
(* Characters and integers, as the regular expressions and int() see them. *)
(***************************************************************************)
DigitChars == {"0", "1", "2", "3", "4", "5", "6", "7", "8", "9"}

LetterChars == {"a", "b", "c", "d", "e", "g", "m", "n", "o", "p", "r", "s",
                "t", "u", "w", "x", "K", "M", "G", "T"}

WordChars == DigitChars \cup LetterChars \cup {"_"}

DigitValue(c) ==
    CASE c = "0" -> 0 [] c = "1" -> 1 [] c = "2" -> 2 [] c = "3" -> 3
      [] c = "4" -> 4 [] c = "5" -> 5 [] c = "6" -> 6 [] c = "7" -> 7
      [] c = "8" -> 8 [] c = "9" -> 9

RECURSIVE int(_)
int(s) ==
    IF s = <<>> THEN 0
    ELSE 10 * int(SubSeq(s, 1, Len(s) - 1)) + DigitValue(s[Len(s)])

str(i) ==
    CASE i = 0 -> <<"0">> [] i = 1 -> <<"1">> [] i = 2 -> <<"2">>
      [] i = 3 -> <<"3">> [] i = 4 -> <<"4">> [] i = 5 -> <<"5">>
      [] i = 6 -> <<"6">> [] i = 7 -> <<"7">> [] i = 8 -> <<"8">>
      [] i = 9 -> <<"9">>

AllIn(s, S) == \A i \in 1..Len(s) : s[i] \in S

EndsWith(s, t) ==
    /\ Len(s) >= Len(t)
    /\ SubSeq(s, Len(s) - Len(t) + 1, Len(s)) = t

DropLast(s, n) == SubSeq(s, 1, Len(s) - n)

RECURSIVE Pow2(_)
Pow2(n) == IF n = 0 THEN 1 ELSE 2 * Pow2(n - 1)

(***************************************************************************)
(* descriptor_processors: the four patterns, tried in this order with      *)
(* fullmatch.  A match is a record of the named groups, or NoMatch.        *)
(***************************************************************************)
MemUnits == {"K", "M", "G", "T"}

match_mem(desc) ==
    IF /\ Len(desc) >= 2
       /\ desc[Len(desc)] \in MemUnits
       /\ AllIn(DropLast(desc, 1), DigitChars)
    THEN [hit |-> TRUE, value |-> DropLast(desc, 1), unit |-> desc[Len(desc)]]
    ELSE NoMatch

match_cpu(desc) ==
    IF EndsWith(desc, <<"c", "p", "u", "s">>)
          /\ Len(desc) >= 5 /\ AllIn(DropLast(desc, 4), DigitChars)
    THEN [hit |-> TRUE, value |-> DropLast(desc, 4)]
    ELSE IF EndsWith(desc, <<"c", "p", "u">>)
          /\ Len(desc) >= 4 /\ AllIn(DropLast(desc, 3), DigitChars)
    THEN [hit |-> TRUE, value |-> DropLast(desc, 3)]
    ELSE NoMatch

OsVariants ==
    { <<"u", "b", "u", "n", "t", "u">>,
      <<"c", "e", "n", "t", "o", "s">>,
      <<"c", "o", "r", "e", "o", "s">> }

match_os(desc) ==
    IF desc \in OsVariants THEN [hit |-> TRUE, variant |-> desc] ELSE NoMatch

match_name(desc) ==
    IF /\ Len(desc) >= 2
       /\ desc[1] = ":"
       /\ AllIn(Tail(desc), WordChars)
    THEN [hit |-> TRUE, name |-> Tail(desc)]
    ELSE NoMatch

(***************************************************************************)
(* The processors.  Each returns [ok, machine] or [ok, error, token]: the  *)
(* token is the descriptor the RuntimeError's message carries, NoToken     *)
(* when the message names none.                                            *)
(***************************************************************************)
UnitExponent(unit) ==
    CASE unit = "K" -> 10 [] unit = "M" -> 20 [] unit = "G" -> 30
      [] unit = "T" -> 40

MinMemoryExponent == 20     \* the code's 2**20: bytes in one MiB

\* value * mult < 2**20, for mult = 2**e; written so that no intermediate
\* exceeds the checker's 32-bit integers (the code's integers are unbounded).
TooLittleMemory(value, e) ==
    IF e >= MinMemoryExponent THEN value < 1
    ELSE value * Pow2(e) < Pow2(MinMemoryExponent)

\* int(value * mult / 2**20): whole MiB (exact below 2**53 bytes).
MemoryMiB(value, e) ==
    IF e >= MinMemoryExponent THEN value * Pow2(e - MinMemoryExponent)
    ELSE (value * Pow2(e)) \div Pow2(MinMemoryExponent)

\* process_mem_descriptor with the test of line 253 left out.
process_mem_descriptor_unchecked(desc, match, machine) ==
    [ok |-> TRUE,
     machine |-> [machine EXCEPT !.memory =
                      MemoryMiB(int(match.value), UnitExponent(match.unit))]]

process_mem_descriptor(desc, match, machine) ==
    LET value == int(match.value)
        e == UnitExponent(match.unit)
    IN  IF TooLittleMemory(value, e)
        THEN [ok |-> FALSE, error |-> "Too little memory", token |-> desc]
        ELSE [ok |-> TRUE,
              machine |-> [machine EXCEPT !.memory = MemoryMiB(value, e)]]

process_cpu_descriptor(desc, match, machine) ==
    LET value == int(match.value)
    IN  IF value = 0
        THEN [ok |-> FALSE, error |-> "Can't have zero CPUs", token |-> NoToken]
        ELSE [ok |-> TRUE, machine |-> [machine EXCEPT !.cpus = value]]

process_os_descriptor(desc, match, machine) ==
    [ok |-> TRUE, machine |-> [machine EXCEPT !.os_variant = match.variant]]

process_name_descriptor(desc, match, machine) ==
    [ok |-> TRUE, machine |-> [machine EXCEPT !.name = match.name]]

\* One iteration of get_machine's loop over the descriptors: first match wins.
apply_descriptor(desc, machine) ==
    IF match_mem(desc).hit
    THEN process_mem_descriptor(desc, match_mem(desc), machine)
    ELSE IF match_cpu(desc).hit
    THEN process_cpu_descriptor(desc, match_cpu(desc), machine)
    ELSE IF match_os(desc).hit
    THEN process_os_descriptor(desc, match_os(desc), machine)
    ELSE IF match_name(desc).hit
    THEN process_name_descriptor(desc, match_name(desc), machine)
    ELSE [ok |-> FALSE, error |-> "Invalid descriptor", token |-> desc]

RECURSIVE apply_descriptors(_, _)
apply_descriptors(descriptors, machine) ==
    IF descriptors = <<>> THEN [ok |-> TRUE, machine |-> machine]
    ELSE LET r == apply_descriptor(Head(descriptors), machine)
         IN  IF r.ok THEN apply_descriptors(Tail(descriptors), r.machine)
             ELSE r

\* os.path.split(path)[1] of a path given as its sequence of components.
directory_name(path) == IF path = <<>> THEN "" ELSE path[Len(path)]

DefaultMemory == 1024
DefaultCpus == 1

\* uuid4 stands for the value of uuid.uuid4() in this call.
get_machine(index, path, descriptors, uuid4) ==
    LET cluster_id == <<directory_name(path), uuid4>>
        machine == [uuid |-> uuid4,
                    name |-> <<"m", "a", "c", "h", "i", "n", "e", "-">>
                                 \o str(index),
                    cluster_id |-> cluster_id,
                    instance_id |-> <<cluster_id, index>>,
                    description |-> <<>>,
                    os_type |-> "linux",
                    os_variant |-> <<"u", "b", "u", "n", "t", "u">>,
                    memory |-> DefaultMemory,
                    cpus |-> DefaultCpus]
    IN  apply_descriptors(descriptors, machine)

(***************************************************************************)
(* The world of the model.                                                 *)
(***************************************************************************)
PathA == <<"srv", "a">>
PathB == <<"srv", "b">>
PathEntity == <<"srv", "r&amp;d">>     \* a directory named r&amp;d
Paths == {PathA, PathB}

\* Domains are identified by number.  The first MaxForeign identifiers are
\* those of domains other tools define; the others are the values uuid.uuid4()
\* can take.  uuid4 never repeats a value still in use: the model hands out the
\* smallest identifier that no defined domain and no file carries.
DomIds == DOMAIN dom
ForeignIds == 1..MaxForeign
Uuids == DomIds \ ForeignIds

NoMachine == [none |-> TRUE]              \* Python's None for a machine
NoFile == [kind |-> "none"]
NoImage == [stem |-> "", ext |-> ""]
NoRequest == [os_type |-> "", os_variant |-> <<>>]
Sentinel == [os_type |-> "None", os_variant |-> <<>>]   \* (None, None)

NoDomain ==
    [defined |-> FALSE, meta |-> FALSE, path |-> <<>>, machine |-> NoMachine,
     state |-> "shutoff", req |-> "none", net |-> "none",
     disk |-> NoFile, cfg |-> NoFile]

ubuntu == <<"u", "b", "u", "n", "t", "u">>
centos == <<"c", "e", "n", "t", "o", "s">>
coreos == <<"c", "o", "r", "e", "o", "s">>

ZeroDownloads == [v \in OsVariants |-> 0]

NoOutcome == [msg |-> "none", code |-> 0, token |-> NoToken, names |-> <<>>]

Ok == [msg |-> "ok", code |-> 0, token |-> NoToken, names |-> <<>>]

\* main: a RuntimeError is printed and the process exits with 1.
RuntimeError(msg, token, names) ==
    [msg |-> msg, code |-> 1, token |-> token, names |-> names]

\* Any other exception is not caught by main: the interpreter prints the
\* traceback and exits with 1.
Uncaught(kind) ==
    [msg |-> kind, code |-> 1, token |-> NoToken, names |-> <<>>]

Init ==
    /\ dom = [d \in 1..(MaxForeign + MaxMachines) |-> NoDomain]
    /\ files = {}
    /\ images = {}
    /\ partial = {}
    /\ pc = "idle"
    /\ cmd = "none"
    /\ cwd = PathA
    /\ argv = <<>>
    /\ cluster = <<>>
    /\ targets = <<>>
    /\ outcome = NoOutcome
    /\ machines = <<>>
    /\ wpc = <<>>
    /\ got = <<>>
    /\ fpc = "off"
    /\ fcur = NoRequest
    /\ reqQ = <<>>
    /\ resQ = <<>>
    /\ downloads = ZeroDownloads
    /\ dpc = <<>>
    /\ destroyed = {}
    /\ pin = <<>>
    /\ pout = NotParsed

MainVars == <<pc, cmd, cwd, argv, cluster, targets, outcome>>
PoolVars == <<machines, wpc, got, fpc, fcur, reqQ, resQ, downloads>>
ParseVars == <<pin, pout>>
DestroyVars == <<dpc, destroyed>>

\* The pool's processes are daemons: they end with the main process.
PoolGone ==
    /\ machines' = <<>>
    /\ wpc' = <<>>
    /\ got' = <<>>
    /\ fpc' = "off"
    /\ fcur' = NoRequest
    /\ reqQ' = <<>>
    /\ resQ' = <<>>
    /\ downloads' = ZeroDownloads

(***************************************************************************)
(* get_current_cluster: one pair per domain the hypervisor lists, in the   *)
(* order of listAllDomains (here: by identifier).                          *)
(***************************************************************************)
DefinedIds == {d \in DomIds : dom[d].defined}

RECURSIVE SortedSeq(_)
SortedSeq(S) ==
    IF S = {} THEN <<>>
    ELSE LET m == CHOOSE x \in S : \A y \in S : x <= y
         IN  <<m>> \o SortedSeq(S \ {m})

listAllDomains == SortedSeq(DefinedIds)

\* The pair appended for one domain: the append is at the loop's level, so a
\* pair is appended whether or not the path matched.
cluster_entry(d, source_dir) ==
    [domain |-> d,
     machine |-> IF dom[d].meta /\ dom[d].path = source_dir
                 THEN dom[d].machine
                 ELSE NoMachine]

get_current_cluster(source_dir) ==
    [i \in 1..Len(listAllDomains) |->
        cluster_entry(listAllDomains[i], source_dir)]

(***************************************************************************)
(* create: descriptor groups, validation, the cluster check, the pool.     *)
(***************************************************************************)
Separator == <<"-", "-">>

RECURSIVE split_from(_, _, _, _)
split_from(list, sep, parts, part) ==
    IF list = <<>> THEN Append(parts, part)
    ELSE IF Head(list) = sep
    THEN split_from(Tail(list), sep, Append(parts, part), <<>>)
    ELSE split_from(Tail(list), sep, parts, Append(part, Head(list)))

split_list(list, sep) == split_from(list, sep, <<>>, <<>>)

UsedUuids ==
    {d \in Uuids : dom[d].defined} \cup {f.instance_id[1][2] : f \in files}

FreeUuids == SortedSeq(Uuids \ UsedUuids)

\* The value uuid.uuid4() takes in the i-th call of get_machine.
uuid4(i) == IF i <= Len(FreeUuids) THEN FreeUuids[i] ELSE 0

\* [get_machine(i + 1, path, desc) for i, desc in enumerate(descriptions)]
parse_all(path, descriptions) ==
    [i \in 1..Len(descriptions) |->
        get_machine(i, path, descriptions[i], uuid4(i))]

\* The list comprehension stops at the first group that raises.
first_error(parsed) ==
    IF \E i \in 1..Len(parsed) : ~parsed[i].ok
    THEN LET i == CHOOSE i \in 1..Len(parsed) :
                      ~parsed[i].ok /\ \A j \in 1..(i - 1) : parsed[j].ok
         IN  parsed[i]
    ELSE [ok |-> TRUE]

count(names, n) == Cardinality({i \in 1..Len(names) : names[i] = n})

RECURSIVE duplicates_from(_, _, _)
duplicates_from(names, i, acc) ==
    IF i > Len(names) THEN acc
    ELSE IF /\ count(names, names[i]) > 1
            /\ \A j \in 1..(i - 1) : names[j] # names[i]
    THEN duplicates_from(names, i + 1, Append(acc, names[i]))
    ELSE duplicates_from(names, i + 1, acc)

\* A duplicate test that stops at the first name it finds twice.
duplicates_first(ms) ==
    LET all == duplicates_from([i \in 1..Len(ms) |-> ms[i].name], 1, <<>>)
    IN  IF all = <<>> THEN <<>> ELSE <<all[1]>>

\* Counter(...).items() with count > 1, in order of first appearance.
duplicates(ms) == duplicates_from([i \in 1..Len(ms) |-> ms[i].name], 1, <<>>)

set_hostname(m) == m @@ [hostname |-> m.name]

\* create_vm's checks with the test of lines 387-389 left out.
create_checks_unguarded(path, args) ==
    LET parsed == parse_all(path, split_list(args, Separator))
        bad == first_error(parsed)
    IN  IF ~bad.ok THEN RuntimeError(bad.error, bad.token, <<>>)
        ELSE LET ms == [i \in 1..Len(parsed) |-> parsed[i].machine]
             IN  IF duplicates(ms) # <<>>
                 THEN RuntimeError("Duplicate names", NoToken, duplicates(ms))
                 ELSE Ok

\* What create_vm raises before it reaches the pool, or Ok.  The order is
\* the code's: every group is parsed, then names are compared, and only then
\* is the hypervisor asked for the cluster.
create_checks(path, args) ==
    LET parsed == parse_all(path, split_list(args, Separator))
        bad == first_error(parsed)
    IN  IF ~bad.ok THEN RuntimeError(bad.error, bad.token, <<>>)
        ELSE LET ms == [i \in 1..Len(parsed) |-> parsed[i].machine]
             IN  IF duplicates(ms) # <<>>
                 THEN RuntimeError("Duplicate names", NoToken, duplicates(ms))
                 ELSE IF get_current_cluster(path) # <<>>
                 THEN RuntimeError("A cluster is already running in this directory.",
                                   NoToken, <<>>)
                 ELSE Ok

\* A create_vm that hands each group to the pool as soon as it has parsed.
pool_tasks_as_parsed(path, args) ==
    LET parsed == parse_all(path, split_list(args, Separator))
        good == SelectSeq(parsed, LAMBDA r : r.ok)
    IN  [i \in 1..Len(good) |-> set_hostname(good[i].machine)]

\* The machines pool.map is given: reached only when nothing was raised.
pool_tasks(path, args) ==
    IF create_checks(path, args) = Ok
    THEN LET parsed == parse_all(path, split_list(args, Separator))
         IN  [i \in 1..Len(parsed) |-> set_hostname(parsed[i].machine)]
    ELSE <<>>

create_vm(path, args) ==
    /\ pc = "idle"
    /\ Len(pool_tasks(path, args)) <= Len(FreeUuids)
    /\ cmd' = "create"
    /\ cwd' = path
    /\ argv' = args
    /\ targets' = <<>>
    /\ UNCHANGED <<dom, files, images, partial, dpc, ParseVars>>
    /\ IF pool_tasks(path, args) # <<>>
       THEN /\ pc' = "pool"
            /\ destroyed' = destroyed \ {path}
            /\ cluster' = get_current_cluster(path)
            /\ outcome' = NoOutcome
            /\ machines' = pool_tasks(path, args)
            /\ wpc' = [i \in 1..Len(pool_tasks(path, args)) |-> "get_image"]
            /\ got' = [i \in 1..Len(pool_tasks(path, args)) |-> NoImage]
            /\ fpc' = "idle"
            /\ UNCHANGED <<fcur, reqQ, resQ, downloads>>
       ELSE /\ pc' = "returned"
            /\ cluster' = <<>>
            /\ outcome' = create_checks(path, args)
            /\ UNCHANGED <<PoolVars, destroyed>>

(***************************************************************************)
(* fetch_image: the one worker that owns the base-image cache.             *)
(***************************************************************************)
image_filename(os_variant) ==
    CASE os_variant = ubuntu ->
             [stem |-> "ubuntu-16.04-server-cloudimg-amd64-disk1.img", ext |-> ""]
      [] os_variant = centos ->
             [stem |-> "CentOS-7-x86_64-GenericCloud-1503.qcow2", ext |-> ""]
      [] os_variant = coreos ->
             [stem |-> "coreos_production_qemu_image.img", ext |-> ""]

\* The last component of the url: the file the download is written to.
target_filename(os_variant) ==
    CASE os_variant = ubuntu ->
             [stem |-> "ubuntu-16.04-server-cloudimg-amd64-disk1.img", ext |-> ""]
      [] os_variant = centos ->
             [stem |-> "CentOS-7-x86_64-GenericCloud-1503.qcow2", ext |-> ".xz"]
      [] os_variant = coreos ->
             [stem |-> "coreos_production_qemu_image.img", ext |-> ".bz2"]

Compressed == {".xz", ".gz", ".bz2"}

\* What an external tool or a download can end with: 0, or a failure.
ExitCodes == {0, 1}

\* unxz, gunzip, bunzip2: replace the archive by the file without the suffix.
decompressed(target) == [target EXCEPT !.ext = ""]

\* Takes one request off the queue; ends on the sentinel; answers at once
\* when the image file exists; otherwise opens the target file for writing
\* and starts to stream the download into it.
fetch_get ==
    /\ fpc = "idle"
    /\ reqQ # <<>>
    /\ reqQ' = Tail(reqQ)
    /\ UNCHANGED <<dom, files, MainVars, machines, wpc, got, DestroyVars,
                   ParseVars>>
    /\ LET req == Head(reqQ)
       IN  IF req.os_type = "None"
           THEN /\ fpc' = "exit"
                /\ UNCHANGED <<fcur, resQ, images, partial, downloads>>
           ELSE IF image_filename(req.os_variant) \in images
           THEN /\ resQ' = Append(resQ, image_filename(req.os_variant))
                /\ UNCHANGED <<fpc, fcur, images, partial, downloads>>
           ELSE /\ images' = images \cup {target_filename(req.os_variant)}
                /\ partial' = partial \cup {target_filename(req.os_variant)}
                /\ downloads' =
                       [downloads EXCEPT ![req.os_variant] = @ + 1]
                /\ fpc' = "download"
                /\ fcur' = req
                /\ UNCHANGED resQ

\* The stream ends: with the last chunk written (code 0), or with an
\* exception of requests part-way, which ends the fetch worker and leaves
\* what was written in the target file.
fetch_download(code) ==
    /\ fpc = "download"
    /\ UNCHANGED <<dom, files, MainVars, machines, wpc, got, fcur, reqQ, resQ,
                   images, downloads, DestroyVars, ParseVars>>
    /\ IF code = 0
       THEN /\ partial' = partial \ {target_filename(fcur.os_variant)}
            /\ fpc' = "decompress"
       ELSE /\ fpc' = "raised"
            /\ UNCHANGED partial

\* After the download: the decompressor for the suffix, with its exit code;
\* a non-zero code raises in the fetch worker, which publishes nothing.
\* No decompressor runs for a target without such a suffix.
fetch_finish(code) ==
    /\ fpc = "decompress"
    /\ UNCHANGED <<dom, files, MainVars, machines, wpc, got, reqQ, downloads,
                   partial, DestroyVars, ParseVars>>
    /\ LET target == target_filename(fcur.os_variant)
       IN  IF target.ext \in Compressed /\ code # 0
           THEN /\ fpc' = "raised"
                /\ UNCHANGED <<fcur, resQ, images>>
           ELSE /\ images' = (images \ {target}) \cup {decompressed(target)}
                /\ resQ' = Append(resQ, image_filename(fcur.os_variant))
                /\ fpc' = "idle"
                /\ fcur' = NoRequest

(***************************************************************************)
(* create_single_vm: one worker per machine of the batch.                  *)
(***************************************************************************)
Workers == DOMAIN wpc

disk_file(machine) == [kind |-> "disk", instance_id |-> machine.instance_id]
config_file(machine) == [kind |-> "config", instance_id |-> machine.instance_id]

\* A pool with one process for each machine and none for fetch_image.
processes_without_fetch(ms) == Len(ms)

\* Pool(len(machines) + 1): the processes of create's pool.
processes(ms) == Len(ms) + 1

\* The processes of the pool that are running a task: fetch_image until it
\* returns, and every create_single_vm that has started and not ended.
busy ==
    (IF fpc \in {"idle", "download", "decompress"} THEN 1 ELSE 0)
        + Cardinality({i \in Workers :
                          wpc[i] \notin {"get_image", "done", "raised"}})

\* A task starts when a process of the pool is free.  get_image, first
\* half: the request is put on the request queue.
worker_request(i) ==
    /\ pc = "pool"
    /\ wpc[i] = "get_image"
    /\ busy < processes(machines)
    /\ reqQ' = Append(reqQ, [os_type |-> machines[i].os_type,
                             os_variant |-> machines[i].os_variant])
    /\ wpc' = [wpc EXCEPT ![i] = "wait_image"]
    /\ UNCHANGED <<dom, files, images, partial, MainVars, machines, got, fpc,
                   fcur, resQ, downloads, DestroyVars, ParseVars>>

\* get_image, second half: whatever is first on the result queue is taken.
worker_receive(i) ==
    /\ pc = "pool"
    /\ wpc[i] = "wait_image"
    /\ resQ # <<>>
    /\ got' = [got EXCEPT ![i] = Head(resQ)]
    /\ resQ' = Tail(resQ)
    /\ wpc' = [wpc EXCEPT ![i] = "disk"]
    /\ UNCHANGED <<dom, files, images, partial, MainVars, machines, fpc, fcur,
                   reqQ, downloads, DestroyVars, ParseVars>>

\* create_disk_image: qemu-img needs the backing file; code is its exit code.
worker_disk(i, code) ==
    /\ pc = "pool"
    /\ wpc[i] = "disk"
    /\ IF code = 0 /\ got[i] \in images
       THEN /\ files' = files \cup {disk_file(machines[i])}
            /\ machines' = [machines EXCEPT ![i] =
                               @ @@ [disk_image |-> disk_file(@)]]
            /\ wpc' = [wpc EXCEPT ![i] = "config"]
       ELSE /\ wpc' = [wpc EXCEPT ![i] = "raised"]
            /\ UNCHANGED <<files, machines>>
    /\ UNCHANGED <<dom, images, partial, MainVars, got, fpc, fcur, reqQ, resQ,
                   downloads, DestroyVars, ParseVars>>

\* create_cloud_config_drive: an old iso is unlinked; code is genisoimage's
\* exit code.
worker_config(i, code) ==
    /\ pc = "pool"
    /\ wpc[i] = "config"
    /\ IF code = 0
       THEN /\ files' = files \cup {config_file(machines[i])}
            /\ machines' = [machines EXCEPT ![i] =
                               @ @@ [config_drive |-> config_file(@)]]
            /\ wpc' = [wpc EXCEPT ![i] = "define"]
       ELSE /\ files' = files \ {config_file(machines[i])}
            /\ wpc' = [wpc EXCEPT ![i] = "raised"]
            /\ UNCHANGED machines
    /\ UNCHANGED <<dom, images, partial, MainVars, got, fpc, fcur, reqQ, resQ,
                   downloads, DestroyVars, ParseVars>>

\* What an XML parser returns for a path component that str.format wrote
\* into the descriptor as it is: an entity reference in it is decoded.
xml_text(component) == IF component = "r&amp;d" THEN "r&d" ELSE component

\* tree.find('./path').text of a descriptor rendered with path.
xml_path(path) == [k \in 1..Len(path) |-> xml_text(path[k])]

\* base64.b64encode(pickle.dumps(machine)).decode(): the text that stands
\* for the machine; its alphabet has no character XML gives a meaning to.
pickled_machine(machine) == [b64 |-> machine]

\* pickle.loads(base64.b64decode(text))
unpickled_machine(text) == text.b64

\* conn.defineXML(xml): the metadata block carries the path and the machine;
\* the domain holds what the hypervisor's parser read from the descriptor.
worker_define(i) ==
    /\ pc = "pool"
    /\ wpc[i] = "define"
    /\ dom' = [dom EXCEPT ![machines[i].uuid] =
                  [defined |-> TRUE, meta |-> TRUE, path |-> xml_path(cwd),
                   machine |-> unpickled_machine(pickled_machine(machines[i])),
                   state |-> "shutoff",
                   req |-> "none", net |-> "none",
                   disk |-> machines[i].disk_image,
                   cfg |-> machines[i].config_drive]]
    /\ wpc' = [wpc EXCEPT ![i] = "launch"]
    /\ UNCHANGED <<files, images, partial, MainVars, machines, got, fpc, fcur,
                   reqQ, resQ, downloads, DestroyVars, ParseVars>>

\* domain.create()
worker_launch(i) ==
    /\ pc = "pool"
    /\ wpc[i] = "launch"
    /\ dom' = [dom EXCEPT ![machines[i].uuid].req = "start"]
    /\ wpc' = [wpc EXCEPT ![i] = "lease"]
    /\ UNCHANGED <<files, images, partial, MainVars, machines, got, fpc, fcur,
                   reqQ, resQ, downloads, DestroyVars, ParseVars>>

\* while not lease: the loop is left once the lease table has the mac.
worker_lease(i) ==
    /\ pc = "pool"
    /\ wpc[i] = "lease"
    /\ dom[machines[i].uuid].net \in {"lease", "ssh"}
    /\ wpc' = [wpc EXCEPT ![i] = "ssh"]
    /\ UNCHANGED <<dom, files, images, partial, MainVars, machines, got, fpc,
                   fcur, reqQ, resQ, downloads, DestroyVars, ParseVars>>

\* A worker that reports success without a connection to port 22.
worker_ssh_unchecked(i) ==
    /\ pc = "pool"
    /\ wpc[i] = "ssh"
    /\ wpc' = [wpc EXCEPT ![i] = "done"]
    /\ UNCHANGED <<dom, files, images, partial, MainVars, machines, got, fpc,
                   fcur, reqQ, resQ, downloads, DestroyVars, ParseVars>>

\* while True: sock.connect((ip, 22)) until it is not refused.
worker_ssh(i) ==
    /\ pc = "pool"
    /\ wpc[i] = "ssh"
    /\ dom[machines[i].uuid].net = "ssh"
    /\ wpc' = [wpc EXCEPT ![i] = "done"]
    /\ UNCHANGED <<dom, files, images, partial, MainVars, machines, got, fpc,
                   fcur, reqQ, resQ, downloads, DestroyVars, ParseVars>>

\* A pool.map that re-raises a task's error as soon as the task has raised.
create_join_fail_fast ==
    /\ pc = "pool"
    /\ \/ \A i \in Workers : wpc[i] = "done"
       \/ \E i \in Workers : wpc[i] = "raised"
    /\ pc' = "returned"
    /\ UNCHANGED <<dom, files, images, partial, cmd, cwd, argv, cluster,
                   targets, machines, wpc, got, fpc, fcur, resQ, downloads,
                   DestroyVars, ParseVars>>
    /\ IF \E i \in Workers : wpc[i] = "raised"
       THEN /\ outcome' = RuntimeError("Error creating image", NoToken, <<>>)
            /\ UNCHANGED reqQ
       ELSE /\ outcome' = Ok
            /\ reqQ' = Append(reqQ, Sentinel)

\* pool.map returns once every task has ended, and re-raises a task's
\* RuntimeError, which main prints before exit(1); otherwise the sentinel
\* is put on the request queue and create_vm returns.
create_join ==
    /\ pc = "pool"
    /\ \A i \in Workers : wpc[i] \in {"done", "raised"}
    /\ pc' = "returned"
    /\ UNCHANGED <<dom, files, images, partial, cmd, cwd, argv, cluster, targets,
                   machines, wpc, got, fpc, fcur, resQ, downloads,
                   DestroyVars, ParseVars>>
    /\ IF \E i \in Workers : wpc[i] = "raised"
       THEN /\ outcome' = RuntimeError("Error creating image", NoToken, <<>>)
            /\ UNCHANGED reqQ
       ELSE /\ outcome' = Ok
            /\ reqQ' = Append(reqQ, Sentinel)

\* main: exit(code).  The process and its pool are gone; the next command
\* line starts from nothing but the hypervisor and the files.
process_exit ==
    /\ pc = "returned"
    /\ pc' = "idle"
    /\ cmd' = "none"
    /\ cwd' = PathA
    /\ argv' = <<>>
    /\ cluster' = <<>>
    /\ targets' = <<>>
    /\ outcome' = NoOutcome
    /\ dpc' = <<>>
    /\ PoolGone
    /\ UNCHANGED <<dom, files, images, partial, destroyed, ParseVars>>

(***************************************************************************)
(* The hypervisor and the guests.  Their steps are not interleaved between *)
(* a command's return and its process's exit: exit touches nothing they    *)
(* read, so such a step is the same step taken right after the exit.       *)
(***************************************************************************)
\* A requested run takes effect.
hv_start(d) ==
    /\ pc # "returned"
    /\ dom[d].defined
    /\ dom[d].req = "start"
    /\ dom' = [dom EXCEPT ![d].state = "running", ![d].req = "none"]
    /\ UNCHANGED <<files, images, partial, MainVars, PoolVars, DestroyVars,
                   ParseVars>>

\* A requested graceful stop takes effect.
hv_stop(d) ==
    /\ pc # "returned"
    /\ dom[d].defined
    /\ dom[d].req = "stop"
    /\ dom' = [dom EXCEPT ![d].state = "shutoff", ![d].req = "none",
                          ![d].net = "none"]
    /\ UNCHANGED <<files, images, partial, MainVars, PoolVars, DestroyVars,
                   ParseVars>>

\* The default network leases an address to a running guest.
hv_lease(d) ==
    /\ pc # "returned"
    /\ dom[d].defined
    /\ dom[d].state = "running"
    /\ dom[d].net = "none"
    /\ dom' = [dom EXCEPT ![d].net = "lease"]
    /\ UNCHANGED <<files, images, partial, MainVars, PoolVars, DestroyVars,
                   ParseVars>>

\* The guest's sshd starts listening.
guest_ssh(d) ==
    /\ pc # "returned"
    /\ dom[d].defined
    /\ dom[d].state = "running"
    /\ dom[d].net = "lease"
    /\ dom' = [dom EXCEPT ![d].net = "ssh"]
    /\ UNCHANGED <<files, images, partial, MainVars, PoolVars, DestroyVars,
                   ParseVars>>

\* Another tool defines a domain: it carries no spinup metadata.
foreign_define(d) ==
    /\ pc # "returned"
    /\ d \in ForeignIds
    /\ ~dom[d].defined
    /\ dom' = [dom EXCEPT ![d] = [NoDomain EXCEPT !.defined = TRUE]]
    /\ UNCHANGED <<files, images, partial, MainVars, PoolVars, DestroyVars,
                   ParseVars>>

(***************************************************************************)
(* destroy                                                                 *)
(***************************************************************************)
NoClusterFound == RuntimeError("No cluster found in this directory.", NoToken, <<>>)

destroy_vm(path) ==
    /\ pc = "idle"
    /\ cmd' = "destroy"
    /\ cwd' = path
    /\ argv' = <<>>
    /\ targets' = <<>>
    /\ UNCHANGED <<dom, files, images, partial, PoolVars, destroyed, ParseVars>>
    /\ IF get_current_cluster(path) = <<>>
       THEN /\ pc' = "returned"
            /\ outcome' = NoClusterFound
            /\ UNCHANGED <<cluster, dpc>>
       ELSE /\ pc' = "destroy_pool"
            /\ cluster' = get_current_cluster(path)
            /\ dpc' = [i \in 1..Len(get_current_cluster(path)) |-> "run"]
            /\ outcome' = NoOutcome

\* One pool task.  machine['name'] is evaluated for the first message, before
\* the domain is touched: a pair without a machine raises TypeError there.
\* domain.destroy() on a stopped domain raises libvirtError, which is passed.
destroy_single_vm(i) ==
    /\ pc = "destroy_pool"
    /\ dpc[i] = "run"
    /\ LET d == cluster[i].domain
       IN  IF cluster[i].machine = NoMachine
           THEN /\ dpc' = [dpc EXCEPT ![i] = "raised"]
                /\ UNCHANGED <<dom, files>>
           ELSE /\ dom' = [dom EXCEPT ![d] = NoDomain]
                /\ files' = files \ {dom[d].disk, dom[d].cfg}
                /\ dpc' = [dpc EXCEPT ![i] =
                              IF {dom[d].disk, dom[d].cfg} \subseteq files
                              THEN "done" ELSE "raised"]
    /\ UNCHANGED <<images, partial, MainVars, PoolVars, destroyed, ParseVars>>

\* pool.map returns when every task has ended and re-raises a task's error.
destroy_join ==
    /\ pc = "destroy_pool"
    /\ \A i \in DOMAIN dpc : dpc[i] \in {"done", "raised"}
    /\ pc' = "returned"
    /\ outcome' = IF \E i \in DOMAIN dpc : dpc[i] = "raised"
                  THEN Uncaught("TypeError") ELSE Ok
    /\ destroyed' = IF \E i \in DOMAIN dpc : dpc[i] = "raised"
                    THEN destroyed ELSE destroyed \cup {cwd}
    /\ UNCHANGED <<dom, files, images, partial, cmd, cwd, argv, cluster, targets, dpc,
                   PoolVars, ParseVars>>

(***************************************************************************)
(* shutdown, start, status                                                 *)
(***************************************************************************)
SelectSeq2(seq, name) ==
    SelectSeq(seq, LAMBDA e : e.machine.name = name)

HasNone(seq) == \E i \in 1..Len(seq) : seq[i].machine = NoMachine

\* The name filter shared by shutdown, start and status:
\* [(d, m) for d, m in cluster if m['name'] == name] raises TypeError on a
\* pair without a machine.
select(clu, args) ==
    IF clu = <<>> THEN [error |-> NoClusterFound, cluster |-> <<>>]
    ELSE IF Len(args) = 0 THEN [error |-> Ok, cluster |-> clu]
    ELSE IF HasNone(clu) THEN [error |-> Uncaught("TypeError"), cluster |-> <<>>]
    ELSE IF SelectSeq2(clu, args[1]) = <<>>
    THEN [error |-> RuntimeError("No machine named", args[1], <<>>),
          cluster |-> <<>>]
    ELSE [error |-> Ok, cluster |-> SelectSeq2(clu, args[1])]

\* domain.shutdown(): libvirtError on a domain that is not running is passed.
domain_shutdown(D, d) ==
    IF D[d].state = "running" THEN [D EXCEPT ![d].req = "stop"] ELSE D

\* domain.create() raises libvirtError on a domain that is already active.
domain_active(D, d) == D[d].state = "running" \/ D[d].req = "start"

domain_create(D, d) == [D EXCEPT ![d].req = "start"]

\* for domain, machine in cluster: print(machine['name']); request.
\* Ends at the first pair that raises, with the requests made so far.
RECURSIVE request_loop(_, _, _, _)
request_loop(verb, clu, k, D) ==
    IF k > Len(clu) THEN [error |-> Ok, dom |-> D]
    ELSE IF clu[k].machine = NoMachine
    THEN [error |-> Uncaught("TypeError"), dom |-> D]
    ELSE IF verb = "shutdown"
    THEN request_loop(verb, clu, k + 1, domain_shutdown(D, clu[k].domain))
    ELSE IF domain_active(D, clu[k].domain)
    THEN [error |-> Uncaught("libvirtError"), dom |-> D]
    ELSE request_loop(verb, clu, k + 1, domain_create(D, clu[k].domain))

lifecycle(verb, path, args) ==
    LET sel == select(get_current_cluster(path), args)
        run == request_loop(verb, sel.cluster, 1, dom)
    IN  /\ pc = "idle"
        /\ cmd' = verb
        /\ cwd' = path
        /\ argv' = args
        /\ UNCHANGED <<files, images, partial, PoolVars, DestroyVars,
                       ParseVars>>
        /\ IF sel.error # Ok
           THEN /\ pc' = "returned"
                /\ outcome' = sel.error
                /\ UNCHANGED <<dom, cluster, targets>>
           ELSE /\ dom' = run.dom
                /\ IF run.error # Ok
                   THEN /\ pc' = "returned"
                        /\ outcome' = run.error
                        /\ UNCHANGED <<cluster, targets>>
                   ELSE /\ pc' = "poll"
                        /\ outcome' = NoOutcome
                        /\ cluster' = get_current_cluster(path)
                        /\ targets' = sel.cluster

shutdown_vm(path, args) == lifecycle("shutdown", path, args)

start_vm(path, args) == lifecycle("start", path, args)

\* while all(d.state()[0] != STATE for d, _ in cluster): time.sleep(0.1)
\* The loop is left as soon as the condition is false.
still_waiting(state) ==
    \A k \in 1..Len(targets) : dom[targets[k].domain].state # state

poll_return ==
    /\ pc = "poll"
    /\ ~still_waiting(IF cmd = "start" THEN "running" ELSE "shutoff")
    /\ pc' = "returned"
    /\ outcome' = Ok
    /\ UNCHANGED <<dom, files, images, partial, cmd, cwd, argv, cluster, targets,
                   PoolVars, DestroyVars, ParseVars>>

status_vm(path, args) ==
    LET sel == select(get_current_cluster(path), args)
    IN  /\ pc = "idle"
        /\ cmd' = "status"
        /\ cwd' = path
        /\ argv' = args
        /\ outcome' = IF sel.error # Ok THEN sel.error
                      ELSE IF HasNone(sel.cluster) THEN Uncaught("TypeError")
                      ELSE Ok
        /\ pc' = "returned"
        /\ UNCHANGED <<dom, files, images, partial, cluster, targets, PoolVars,
                       DestroyVars, ParseVars>>

(***************************************************************************)
(* ssh                                                                     *)
(***************************************************************************)
\* The pair ssh_vm settles on, or the error it raises on the way.
ssh_target(clu, args) ==
    IF clu = <<>> THEN [error |-> NoClusterFound]
    ELSE IF Len(clu) = 1 THEN [error |-> Ok, pair |-> clu[1]]
    ELSE IF Len(args) = 0
    THEN [error |-> RuntimeError("More than one machine in the cluster.",
                                 NoToken, <<>>)]
    ELSE IF Len(args) > 1
    THEN [error |-> RuntimeError("You can only specify one machine name.",
                                 NoToken, <<>>)]
    ELSE IF \E k \in 1..Len(clu) :
               /\ clu[k].machine # NoMachine
               /\ clu[k].machine.name = args[1]
               /\ \A j \in 1..(k - 1) : clu[j].machine # NoMachine
    THEN [error |-> Ok,
          pair |-> clu[CHOOSE k \in 1..Len(clu) :
                          /\ \A j \in 1..k : clu[j].machine # NoMachine
                          /\ clu[k].machine.name = args[1]
                          /\ \A j \in 1..(k - 1) :
                                 clu[j].machine.name # args[1]]]
    ELSE IF HasNone(clu) THEN [error |-> Uncaught("TypeError")]
    ELSE [error |-> RuntimeError("No such machine in the cluster.",
                                 NoToken, <<>>)]

\* find_dhcp_lease returns None without a lease, and lease['ipaddr'] raises;
\* get_default_username(None) raises as well.
ssh_vm(path, args) ==
    LET t == ssh_target(get_current_cluster(path), args)
    IN  /\ pc = "idle"
        /\ cmd' = "ssh"
        /\ cwd' = path
        /\ argv' = args
        /\ outcome' = IF t.error # Ok THEN t.error
                      ELSE IF dom[t.pair.domain].net = "none"
                              \/ t.pair.machine = NoMachine
                      THEN Uncaught("TypeError")
                      ELSE Ok
        /\ pc' = "returned"
        /\ UNCHANGED <<dom, files, images, partial, cluster, targets, PoolVars,
                       DestroyVars, ParseVars>>

(***************************************************************************)
(* The command lines the model tries.                                      *)
(***************************************************************************)
tok_centos == centos
tok_web == <<":", "w", "e", "b">>
tok_0cpu == <<"0", "c", "p", "u">>
tok_512K == <<"5", "1", "2", "K">>
tok_bogus == <<"b", "o", "g", "u", "s">>
tok_db == <<":", "d", "b">>

ValidGroups == {<<>>, <<tok_centos>>, <<tok_web>>}

InvalidGroups == {<<tok_0cpu>>, <<tok_512K>>, <<tok_bogus>>}

RECURSIVE join(_)
join(groups) ==
    IF Len(groups) = 1 THEN groups[1]
    ELSE groups[1] \o <<Separator>> \o join(Tail(groups))

\* Every batch of valid groups (two of which may share a name), every kind
\* of invalid group (alone, after a valid group and before one), a batch with
\* a shared name and an invalid group, and one with two shared names.
CreateArgs ==
    {join(b) : b \in UNION {[1..k -> ValidGroups] : k \in 1..MaxMachines}}
        \cup {join(<<g>>) : g \in InvalidGroups}
        \cup {join(<<<<tok_centos>>, g>>) : g \in InvalidGroups}
        \cup {join(<<g, <<>> >>) : g \in InvalidGroups}
        \cup {join(<<<<tok_web>>, <<tok_web>>, <<tok_bogus>>>>),
              join(<<<<tok_web>>, <<tok_db>>, <<tok_web>>, <<tok_db>>>>)}

NameArgs == {<<>>, << <<"w", "e", "b">> >>, << <<"x">> >>}

(***************************************************************************)
(* The parser on its own: get_machine applied to one descriptor group.     *)
(***************************************************************************)
ParseTokens ==
    { <<"1", "M">>, <<"0", "M">>, <<"1", "0", "2", "3", "K">>,
      <<"1", "0", "2", "4", "K">>, <<"2", "G">>, <<"1", "T">>,
      <<"4", "c", "p", "u", "s">>, <<"1", "c", "p", "u">>, tok_0cpu,
      <<"0", "0", "c", "p", "u", "s">>,
      ubuntu, centos, coreos,
      <<":", "d", "b", "1">>, tok_web,
      tok_bogus, <<"1", "0", "4", "8", "5", "7", "5">>, <<":">>,
      <<"c", "p", "u">>, <<"2", "G", "x">>, <<"c", "e", "n", "t", "o", "s", "x">> }

ParseGroups == UNION {[1..k -> ParseTokens] : k \in 0..MaxTokens}

parse_run ==
    /\ pout = NotParsed
    /\ \E index \in 1..MaxMachines :
          pout' = get_machine(index, PathA, pin, 1)
    /\ UNCHANGED <<dom, files, images, partial, MainVars, PoolVars,
                   DestroyVars, pin>>

InitParse ==
    /\ dom = [d \in 1..(MaxForeign + MaxMachines) |-> NoDomain]
    /\ files = {}
    /\ images = {}
    /\ partial = {}
    /\ pc = "idle"
    /\ cmd = "none"
    /\ cwd = PathA
    /\ argv = <<>>
    /\ cluster = <<>>
    /\ targets = <<>>
    /\ outcome = NoOutcome
    /\ machines = <<>>
    /\ wpc = <<>>
    /\ got = <<>>
    /\ fpc = "off"
    /\ fcur = NoRequest
    /\ reqQ = <<>>
    /\ resQ = <<>>
    /\ downloads = ZeroDownloads
    /\ dpc = <<>>
    /\ destroyed = {}
    /\ pin \in ParseGroups
    /\ pout = NotParsed

NextParse == parse_run

SpecParse == InitParse /\ [][NextParse]_vars

(***************************************************************************)
(* The system.                                                             *)
(***************************************************************************)
Next ==
    \/ \E p \in Paths, a \in CreateArgs : create_vm(p, a)
    \/ fetch_get
    \/ \E code \in ExitCodes : fetch_download(code)
    \/ \E code \in ExitCodes : fetch_finish(code)
    \/ \E i \in Workers : worker_request(i)
    \/ \E i \in Workers : worker_receive(i)
    \/ \E i \in Workers, code \in ExitCodes : worker_disk(i, code)
    \/ \E i \in Workers, code \in ExitCodes : worker_config(i, code)
    \/ \E i \in Workers : worker_define(i)
    \/ \E i \in Workers : worker_launch(i)
    \/ \E i \in Workers : worker_lease(i)
    \/ \E i \in Workers : worker_ssh(i)
    \/ create_join
    \/ process_exit
    \/ \E p \in Paths : destroy_vm(p)
    \/ \E i \in DOMAIN dpc : destroy_single_vm(i)
    \/ destroy_join
    \/ \E p \in Paths, a \in NameArgs : shutdown_vm(p, a)
    \/ \E p \in Paths, a \in NameArgs : start_vm(p, a)
    \/ poll_return
    \/ \E p \in Paths, a \in NameArgs : status_vm(p, a)
    \/ \E p \in Paths, a \in NameArgs : ssh_vm(p, a)
    \/ \E d \in DomIds : hv_start(d)
    \/ \E d \in DomIds : hv_stop(d)
    \/ \E d \in DomIds : hv_lease(d)
    \/ \E d \in DomIds : guest_ssh(d)
    \/ \E d \in DomIds : foreign_define(d)

Spec == Init /\ [][Next]_vars

(***************************************************************************)
(* The image-acquisition phase of one create batch on its own: MaxBatch    *)
(* workers, the fetch worker and the two queues, from an empty cache.      *)
(***************************************************************************)
ImageArgs == {join(b) : b \in [1..MaxBatch -> {<<>>, <<tok_centos>>}]}

InitImages ==
    /\ dom = [d \in 1..(MaxForeign + MaxBatch) |-> NoDomain]
    /\ files = {}
    /\ images = {}
    /\ partial = {}
    /\ pc = "idle"
    /\ cmd = "none"
    /\ cwd = PathA
    /\ argv = <<>>
    /\ cluster = <<>>
    /\ targets = <<>>
    /\ outcome = NoOutcome
    /\ machines = <<>>
    /\ wpc = <<>>
    /\ got = <<>>
    /\ fpc = "off"
    /\ fcur = NoRequest
    /\ reqQ = <<>>
    /\ resQ = <<>>
    /\ downloads = ZeroDownloads
    /\ dpc = <<>>
    /\ destroyed = {}
    /\ pin = <<>>
    /\ pout = NotParsed

NextImages ==
    \/ \E a \in ImageArgs : create_vm(PathA, a)
    \/ fetch_get
    \/ \E code \in ExitCodes : fetch_download(code)
    \/ \E code \in ExitCodes : fetch_finish(code)
    \/ \E i \in Workers : worker_request(i)
    \/ \E i \in Workers : worker_receive(i)

SpecImages == InitImages /\ [][NextImages]_vars

(***************************************************************************)
(* Fairness: every process of an invocation that can take a step takes one *)
(* (the operating system schedules the pool's processes and the            *)
(* hypervisor); nothing obliges the user to type another command.          *)
(***************************************************************************)
Progress ==
    \/ fetch_get
    \/ \E code \in ExitCodes : fetch_download(code) \/ fetch_finish(code)
    \/ \E i \in Workers :
          \/ worker_request(i) \/ worker_receive(i)
          \/ \E code \in ExitCodes : worker_disk(i, code) \/ worker_config(i, code)
          \/ worker_define(i) \/ worker_launch(i)
          \/ worker_lease(i) \/ worker_ssh(i)
    \/ create_join
    \/ process_exit
    \/ \E i \in DOMAIN dpc : destroy_single_vm(i)
    \/ destroy_join
    \/ poll_return
    \/ \E d \in DomIds : hv_start(d) \/ hv_stop(d) \/ hv_lease(d) \/ guest_ssh(d)

FairSpec == Spec /\ WF_vars(Progress)

(***************************************************************************)
(* create on its own, when every external tool and every download          *)
(* succeeds: the first create in a directory, its pool, and what the       *)
(* hypervisor does to the new domains.                                     *)
(***************************************************************************)
CreatePaths == {PathA, PathEntity}

BatchArgs == {join(b) : b \in UNION {[1..k -> {<<>>, <<tok_centos>>}] :
                                         k \in 1..MaxMachines}}

PoolStep ==
    \/ fetch_get
    \/ fetch_download(0)
    \/ fetch_finish(0)
    \/ \E i \in Workers : worker_request(i)
    \/ \E i \in Workers : worker_receive(i)
    \/ \E i \in Workers : worker_disk(i, 0)
    \/ \E i \in Workers : worker_config(i, 0)
    \/ \E i \in Workers : worker_define(i)
    \/ \E i \in Workers : worker_launch(i)
    \/ \E i \in Workers : worker_lease(i)
    \/ \E i \in Workers : worker_ssh(i)
    \/ create_join
    \/ \E d \in DomIds : hv_start(d)
    \/ \E d \in DomIds : hv_lease(d)
    \/ \E d \in DomIds : guest_ssh(d)

NextCreate ==
    \/ \E p \in CreatePaths, a \in BatchArgs : create_vm(p, a)
    \/ PoolStep
    \/ process_exit

SpecCreate == Init /\ [][NextCreate]_vars /\ WF_vars(PoolStep)

(***************************************************************************)
(* create on its own, when an external tool or a download may fail.        *)
(***************************************************************************)
BatchStep ==
    \/ fetch_get
    \/ \E code \in ExitCodes : fetch_download(code)
    \/ \E code \in ExitCodes : fetch_finish(code)
    \/ \E i \in Workers : worker_request(i)
    \/ \E i \in Workers : worker_receive(i)
    \/ \E i \in Workers, code \in ExitCodes : worker_disk(i, code)
    \/ \E i \in Workers, code \in ExitCodes : worker_config(i, code)
    \/ \E i \in Workers : worker_define(i)
    \/ \E i \in Workers : worker_launch(i)
    \/ \E i \in Workers : worker_lease(i)
    \/ \E i \in Workers : worker_ssh(i)
    \/ create_join
    \/ \E d \in DomIds : hv_start(d)
    \/ \E d \in DomIds : hv_lease(d)
    \/ \E d \in DomIds : guest_ssh(d)

NextBatch ==
    \/ \E p \in CreatePaths, a \in BatchArgs : create_vm(p, a)
    \/ BatchStep
    \/ process_exit

SpecBatch == Init /\ [][NextBatch]_vars /\ WF_vars(BatchStep)

(***************************************************************************)
(* create on its own, with a user who may interrupt it.                    *)
(***************************************************************************)
\* The user interrupts a running create: KeyboardInterrupt is not a
\* RuntimeError, so main does not catch it; the process exits with the
\* traceback, its pool goes with it, and what is on disk stays as it is.
interrupt ==
    /\ pc = "pool"
    /\ pc' = "returned"
    /\ outcome' = Uncaught("KeyboardInterrupt")
    /\ UNCHANGED <<dom, files, images, partial, cmd, cwd, argv, cluster,
                   targets, PoolVars, DestroyVars, ParseVars>>

NextCache ==
    \/ NextBatch
    \/ interrupt

SpecCache == Init /\ [][NextCache]_vars

(***************************************************************************)
(* Vocabulary of the properties.                                           *)
(***************************************************************************)
AlreadyRunning == "A cluster is already running in this directory."

ValidationMessages ==
    {"Invalid descriptor", "Too little memory", "Can't have zero CPUs",
     "Duplicate names"}

\* The domains whose stored metadata path is p: the cluster of p.
ClusterOf(p) == {d \in DomIds : dom[d].defined /\ dom[d].meta /\ dom[d].path = p}

\* The step that starts an invocation of verb.
Invokes(verb) == pc = "idle" /\ cmd' = verb

\* Nothing the hypervisor or the file system holds has changed.
NoSideEffect ==
    dom' = dom /\ files' = files /\ images' = images /\ partial' = partial

\* No pool was started and no image request was made.
NoPool ==
    /\ pc' = "returned"
    /\ machines' = <<>> /\ wpc' = <<>> /\ fpc' = "off" /\ reqQ' = <<>>
    /\ dpc' = <<>>

(***************************************************************************)
(* C1. Cluster isolation: the cluster get_current_cluster computes for a   *)
(* path holds only pairs of domains whose stored metadata path is that     *)
(* path; a domain created at another path, or one without spinup metadata, *)
(* is never in it.                                                         *)
(***************************************************************************)
C1_ClusterIsolation ==
    \A p \in Paths :
        \A k \in 1..Len(get_current_cluster(p)) :
            get_current_cluster(p)[k].domain \in ClusterOf(p)

(***************************************************************************)
(* C2. start returns only in a state where every targeted domain reports   *)
(* running.                                                                *)
(***************************************************************************)
C2_StartReturnsAllRunning ==
    [][(pc = "poll" /\ cmd = "start" /\ pc' = "returned")
          => \A k \in 1..Len(targets) :
                 dom'[targets[k].domain].state = "running"]_vars

(***************************************************************************)
(* C3. shutdown returns only in a state where every targeted domain        *)
(* reports shut off.                                                       *)
(***************************************************************************)
C3_ShutdownReturnsAllShutoff ==
    [][(pc = "poll" /\ cmd = "shutdown" /\ pc' = "returned")
          => \A k \in 1..Len(targets) :
                 dom'[targets[k].domain].state = "shutoff"]_vars

(***************************************************************************)
(* C6. ssh, destroy, shutdown, start and status, invoked in a directory    *)
(* whose path no domain stores, fail with 'No cluster found' and exit code *)
(* 1 and change no domain and no file.                                     *)
(***************************************************************************)
OtherVerbs == {"ssh", "destroy", "shutdown", "start", "status"}

\* C6: a verb other than create, invoked where the cluster is empty, fails
\* with 'No cluster found', starts no pool and changes no domain or file.
C6_NoClusterFound ==
    [][\A verb \in OtherVerbs :
          (Invokes(verb) /\ ClusterOf(cwd') = {})
              => (outcome' = NoClusterFound /\ NoPool /\ NoSideEffect)]_vars

(***************************************************************************)
(* C8. After destroy has completed at a path, every destroyed domain is    *)
(* undefined and its two artifact files are gone, and the next create at   *)
(* that path is not rejected as 'cluster already running'.                 *)
(***************************************************************************)
C8_DestroyRemoves ==
    (pc = "destroy_pool" /\ pc' = "returned" /\ outcome' = Ok)
        => \A i \in DOMAIN dpc :
               dpc[i] = "done"
                   => /\ ~dom'[cluster[i].domain].defined
                      /\ cluster[i].machine.disk_image \notin files'
                      /\ cluster[i].machine.config_drive \notin files'

C8_CreateAfterDestroy ==
    (Invokes("create") /\ cwd' \in destroyed)
        => outcome'.msg # AlreadyRunning

\* C8: both halves, of every step: what a completed destroy leaves, and how
\* the next create at a path whose cluster was destroyed is received.
C8_DestroyThenCreate ==
    [][C8_DestroyRemoves /\ C8_CreateAfterDestroy]_vars

(***************************************************************************)
(* What makes a batch invalid, said of its tokens and not of the order in  *)
(* which create_vm looks at them.                                          *)
(***************************************************************************)
Unmatched(t) ==
    ~(match_mem(t).hit \/ match_cpu(t).hit \/ match_os(t).hit
          \/ match_name(t).hit)

ZeroCpus(t) == match_cpu(t).hit /\ int(match_cpu(t).value) = 0

\* Below 2^20 bytes: fewer than 1024 K, or zero of any larger unit.
SubMinimumMemory(t) ==
    /\ match_mem(t).hit
    /\ IF match_mem(t).unit = "K" THEN int(match_mem(t).value) < 1024
       ELSE int(match_mem(t).value) = 0

Rejected(t) == Unmatched(t) \/ ZeroCpus(t) \/ SubMinimumMemory(t)

\* The name a group of valid tokens resolves to: its last :name, or the default.
ResolvedName(group, index) ==
    LET named == {k \in 1..Len(group) : match_name(group[k]).hit}
    IN  IF named = {}
        THEN <<"m", "a", "c", "h", "i", "n", "e", "-">> \o str(index)
        ELSE Tail(group[CHOOSE k \in named : \A j \in named : j <= k])

BatchInvalid(args) ==
    LET groups == split_list(args, Separator)
    IN  \/ \E g \in 1..Len(groups) :
              \E k \in 1..Len(groups[g]) : Rejected(groups[g][k])
        \/ \E g, h \in 1..Len(groups) :
              g # h /\ ResolvedName(groups[g], g) = ResolvedName(groups[h], h)

(***************************************************************************)
(* C4. Workers of one create batch that ask for the same os variant while  *)
(* no base image is cached cause exactly one download of it, and all of    *)
(* them receive the same path.                                             *)
(***************************************************************************)
C4_OneFetchSamePath ==
    /\ \A v \in OsVariants :
          /\ downloads[v] <= 1
          /\ (pc = "pool" /\ image_filename(v) \in images) => downloads[v] = 1
    /\ \A i, j \in Workers :
          (/\ machines[i].os_variant = machines[j].os_variant
           /\ got[i] # NoImage /\ got[j] # NoImage)
              => got[i] = got[j]

C7_FailureSurfaced ==
    /\ (fpc = "raised") ~> (\A i \in Workers : wpc[i] # "wait_image")
    /\ (fpc = "raised") ~> (pc = "returned" /\ cmd = "create" /\ outcome.code = 1)

(***************************************************************************)
(* C9. A create whose batch is invalid (a token matching no pattern, a     *)
(* duplicate name, zero cpus, memory below 2^20 bytes, in any group) fails *)
(* with the validation error before any side effect: no pool, no image     *)
(* request, no file, no domain, for any machine of the batch.              *)
(***************************************************************************)
C9_ValidationFirst ==
    [][(Invokes("create") /\ BatchInvalid(argv'))
          => (/\ outcome'.msg \in ValidationMessages
              /\ outcome'.code = 1
              /\ NoPool /\ NoSideEffect
              /\ UNCHANGED <<got, resQ, downloads, fcur>>)]_vars

\* C9 has happened: an invalid group that follows a valid one was refused.
C9_Witness ==
    /\ pc = "returned" /\ cmd = "create"
    /\ outcome.msg = "Invalid descriptor"
    /\ Len(split_list(argv, Separator)) = 2
    /\ ~\E k \in 1..Len(split_list(argv, Separator)[1]) :
           Rejected(split_list(argv, Separator)[1][k])
    /\ Len(split_list(argv, Separator)[1]) = 1

(***************************************************************************)
(* C10. A group get_machine accepts yields memory >= 1 MiB, cpus >= 1 and  *)
(* an os variant of the enumeration; a group with a token that matches     *)
(* none of the patterns is rejected with an error naming that token.       *)
(***************************************************************************)
AcceptedIsSound ==
    pout.ok => /\ pout.machine.memory >= 1
               /\ pout.machine.cpus >= 1
               /\ pout.machine.os_variant \in OsVariants

\* C10: what is accepted is sound, and whenever some token of the group
\* matches no pattern the group is rejected with an error naming that token.
C10_AcceptedSoundUnmatchedNamed ==
    pout # NotParsed
        => /\ AcceptedIsSound
           /\ \A k \in 1..Len(pin) :
                  Unmatched(pin[k]) => (~pout.ok /\ pout.token = pin[k])

\* The first token of the parsed group that get_machine refuses.
FirstRejected ==
    CHOOSE k \in 1..Len(pin) :
        Rejected(pin[k]) /\ \A j \in 1..(k - 1) : ~Rejected(pin[j])

\* C10 as amended: what is accepted is sound; a group is rejected exactly
\* when one of its tokens is refused, and the error is the one of the first
\* refused token: it names that token unless that token is a zero cpu
\* count, and it is 'Invalid descriptor' exactly when that token matches no
\* pattern.
C10_AcceptedSoundFirstRefusedNamed ==
    pout # NotParsed
        => /\ AcceptedIsSound
           /\ (\E k \in 1..Len(pin) : Rejected(pin[k])) <=> ~pout.ok
           /\ ~pout.ok =>
                 /\ pout.token = IF ZeroCpus(pin[FirstRejected]) THEN NoToken
                                 ELSE pin[FirstRejected]
                 /\ Unmatched(pin[FirstRejected])
                        <=> pout.error = "Invalid descriptor"

\* C10 has happened: a group of two tokens was accepted with exactly 1 MiB.
C10_Witness ==
    /\ pout.ok
    /\ pout.machine.memory = 1
    /\ pout.machine.cpus = 4
    /\ Len(pin) = 2

(***************************************************************************)
(* C11. Names are unique within every batch create goes on to provision:   *)
(* when two or more groups resolve to the same name, create fails with a   *)
(* duplicate-name error that lists every duplicated name; otherwise the    *)
(* names, and the hostnames equal to them, are pairwise distinct.          *)
(***************************************************************************)
\* The groups of a batch that get_machine accepts.
Accepted(args) ==
    LET groups == split_list(args, Separator)
    IN  {g \in 1..Len(groups) :
            \A k \in 1..Len(groups[g]) : ~Rejected(groups[g][k])}

\* The names two or more accepted groups of the batch resolve to.
DuplicatedNames(args) ==
    LET groups == split_list(args, Separator)
    IN  {ResolvedName(groups[g], g) : g \in
            {g \in Accepted(args) : \E h \in Accepted(args) :
                h # g /\ ResolvedName(groups[h], h) = ResolvedName(groups[g], g)}}

\* The error is the duplicate-name error and lists each such name once.
ListsEveryDuplicate(args, out) ==
    /\ out.msg = "Duplicate names"
    /\ out.code = 1
    /\ {out.names[k] : k \in 1..Len(out.names)} = DuplicatedNames(args)
    /\ Len(out.names) = Cardinality(DuplicatedNames(args))

\* The machines handed to the pool have distinct names and hostnames.
DistinctNames(ms) ==
    \A i, j \in 1..Len(ms) :
        /\ ms[i].hostname = ms[i].name
        /\ (i # j => ms[i].name # ms[j].name)

\* C11: for every create, whatever else is wrong with the batch: a name
\* shared by two groups gives the duplicate-name error listing every shared
\* name, and a batch that reaches the pool has pairwise distinct names.
C11_DuplicateRefused ==
    [][Invokes("create")
          => /\ DuplicatedNames(argv') # {}
                    => (ListsEveryDuplicate(argv', outcome') /\ NoPool)
             /\ pc' = "pool" => DistinctNames(machines')]_vars

\* C11 with the order of create_vm's tests: the names are compared after
\* every group was parsed, so the duplicate-name error is the one of a batch
\* all of whose groups are accepted.
C11_ParsedThenDuplicateRefused ==
    [][Invokes("create")
          => /\ (/\ DuplicatedNames(argv') # {}
                 /\ Accepted(argv') = 1..Len(split_list(argv', Separator)))
                    => (/\ ListsEveryDuplicate(argv', outcome')
                        /\ NoPool /\ NoSideEffect)
             /\ pc' = "pool" => DistinctNames(machines')]_vars

\* C11 has happened: a batch with two shared names was refused, both listed.
C11_Witness ==
    /\ pc = "returned" /\ cmd = "create"
    /\ outcome.msg = "Duplicate names"
    /\ Len(outcome.names) = 2

(***************************************************************************)
(* C12. start, shutdown and status with a name argument: a name matching   *)
(* no machine of the cluster is a lookup error that changes no domain; a   *)
(* name that matches targets only that machine's domain; without a name,   *)
(* on a cluster of one machine, the command targets that machine and       *)
(* succeeds.                                                               *)
(***************************************************************************)
NamedVerbs == {"start", "shutdown", "status"}

\* The domains of the cluster of p whose machine carries the name args[1].
Named(p, args) ==
    {d \in ClusterOf(p) : args # <<>> /\ dom[d].machine.name = args[1]}

\* Every domain outside D is what it was.
OnlyTouches(D) == \A d \in DomIds \ D : dom'[d] = dom[d]

\* C12: of every invocation of start, shutdown or status where a cluster
\* exists: an unmatched name fails with the lookup error, exit code 1 and no
\* change; a matched name leaves every other domain alone; no name with one
\* machine does not fail and leaves every other domain alone.
C12_NameSelectsTarget ==
    [][\A verb \in NamedVerbs :
          (Invokes(verb) /\ ClusterOf(cwd') # {})
              => /\ (argv' # <<>> /\ Named(cwd', argv') = {})
                        => /\ outcome'.msg = "No machine named"
                           /\ outcome'.code = 1
                           /\ dom' = dom
                 /\ (argv' # <<>> /\ Named(cwd', argv') # {})
                        => OnlyTouches(Named(cwd', argv'))
                 /\ (argv' = <<>> /\ Cardinality(ClusterOf(cwd')) = 1)
                        => /\ outcome'.code = 0
                           /\ OnlyTouches(ClusterOf(cwd'))]_vars

(***************************************************************************)
(* C13. Registry round trip: the machine create embeds in a domain's       *)
(* metadata at a path is what a later discovery from that path yields,     *)
(* paired with that domain, field for field.                               *)
(***************************************************************************)
\* The workers of the running create whose domain has been defined.
Defined == {i \in Workers : wpc[i] \in {"launch", "lease", "ssh", "done"}}

\* C13: for every machine the running create has defined, discovery from the
\* directory of that create holds the pair of its domain and the machine as
\* it was when it was encoded.
C13_RoundTrip ==
    \A i \in Defined :
        \E k \in 1..Len(get_current_cluster(cwd)) :
            /\ get_current_cluster(cwd)[k].domain = machines[i].uuid
            /\ get_current_cluster(cwd)[k].machine = machines[i]

(***************************************************************************)
(* C14. A failure of an artifact-creation step is confined to its machine: *)
(* no domain is defined for it, every sibling still completes, and nothing *)
(* a sibling made, nor the cached base image, is deleted or rolled back.   *)
(***************************************************************************)
MachineIndexes == 1..MaxMachines

\* The step in which worker i fails in create_disk_image or
\* create_cloud_config_drive.
ArtifactFails(i) ==
    i \in Workers /\ wpc[i] \in {"disk", "config"} /\ wpc'[i] = "raised"

\* Such a step changes nothing but the failed worker and, at most, removes
\* the config drive of its own machine.
FailureConfined ==
    \A i \in MachineIndexes :
        ArtifactFails(i)
            => /\ dom' = dom /\ images' = images /\ partial' = partial
               /\ machines' = machines
               /\ files \ {config_file(machines[i])} \subseteq files'
               /\ \A j \in Workers \ {i} : wpc'[j] = wpc[j]

\* create returns only when every task has ended, and neither its return
\* nor the exit of the process removes a domain or a file.
NoRollback ==
    /\ (pc = "pool" /\ pc' = "returned")
          => /\ \A j \in Workers : wpc[j] \in {"done", "raised"}
             /\ NoSideEffect
    /\ (pc = "returned" /\ cmd = "create" /\ pc' = "idle") => NoSideEffect

\* No domain exists for a machine whose worker has failed.
FailedUndefined ==
    \A i \in Workers :
        wpc[i] = "raised" => ~dom[machines[i].uuid].defined

\* A sibling that has made its artifacts is defined and started.
SiblingCompleted(j) ==
    /\ j \in Workers
    /\ wpc[j] = "done"
    /\ dom[machines[j].uuid].defined
    /\ dom[machines[j].uuid].state = "running"
    /\ {disk_file(machines[j]), config_file(machines[j])} \subseteq files

\* A sibling has ended: it is up, or a step of its own has failed, or the
\* fetch worker has died before answering it.
SiblingEnded(j) ==
    \/ SiblingCompleted(j)
    \/ j \in Workers /\ wpc[j] = "raised"
    \/ j \in Workers /\ wpc[j] = "wait_image" /\ fpc = "raised"

\* C14: failures are confined, nothing is rolled back, a failed machine has
\* no domain, every sibling of a failed machine that is past its own
\* artifact steps goes on to be defined, started and reported, and a sibling
\* that is not yet there is stopped only by a failure of its own.
C14_FailureConfined ==
    /\ [][FailureConfined /\ NoRollback]_vars
    /\ []FailedUndefined
    /\ \A i, j \in MachineIndexes :
          /\ (/\ i \in Workers /\ j \in Workers /\ pc = "pool"
               /\ wpc[i] = "raised"
               /\ wpc[j] \in {"define", "launch", "lease", "ssh"})
                  ~> SiblingCompleted(j)
          /\ (/\ i \in Workers /\ j \in Workers /\ pc = "pool"
               /\ wpc[i] = "raised")
                  ~> SiblingEnded(j)

\* C14 has happened: one machine failed and its sibling is up, with the
\* base image still cached, when create returns.
C14_Witness ==
    /\ pc = "returned" /\ cmd = "create"
    /\ \E i, j \in Workers :
          /\ wpc[i] = "raised"
          /\ SiblingCompleted(j)
          /\ got[j] \in images

(***************************************************************************)
(* C15. Per machine, create goes through its steps in one fixed order, and *)
(* what each step needs is there when the step is taken.                   *)
(***************************************************************************)
StageOrder ==
    <<"get_image", "wait_image", "disk", "config", "define", "launch",
      "lease", "ssh", "done">>

Stage(s) == CHOOSE k \in 1..Len(StageOrder) : StageOrder[k] = s

\* Worker i has not failed and has completed the step named s.
Past(i, s) == wpc[i] # "raised" /\ Stage(wpc[i]) > Stage(s)

\* A worker only moves to the next step of the order, or fails.
FixedOrder ==
    \A i \in MachineIndexes :
        (i \in Workers /\ i \in DOMAIN wpc' /\ wpc'[i] # wpc[i])
            => /\ wpc[i] # "raised" /\ wpc[i] # "done"
               /\ \/ wpc'[i] = "raised"
                  \/ Stage(wpc'[i]) = Stage(wpc[i]) + 1

\* What has been done for machine i once its worker is past a step.
StepsDone(i) ==
    LET d == dom[machines[i].uuid] IN
    /\ Past(i, "wait_image") => got[i] # NoImage
    /\ Past(i, "disk") => disk_file(machines[i]) \in files
    /\ Past(i, "config") => config_file(machines[i]) \in files
    /\ d.defined <=> Past(i, "define")
    /\ d.defined => {disk_file(machines[i]), config_file(machines[i])}
                        \subseteq files
    /\ (d.req = "start" \/ d.state = "running") => Past(i, "launch")
    /\ Past(i, "lease") => d.state = "running" /\ d.net \in {"lease", "ssh"}
    /\ Past(i, "ssh") => d.state = "running" /\ d.net = "ssh"

\* C15: the steps of a machine are taken in the fixed order; its domain is
\* defined only with both artifacts made, started only once defined, and
\* reported only after its lease existed and port 22 accepted a connection.
C15_FixedOrder ==
    /\ [][FixedOrder]_vars
    /\ [](\A i \in Workers : StepsDone(i))

\* C15 has happened: a machine has been reported as created.
C15_Witness ==
    \E i \in Workers :
        /\ wpc[i] = "done"
        /\ dom[machines[i].uuid].defined
        /\ dom[machines[i].uuid].net = "ssh"

(***************************************************************************)
(* C16. The sentinel is the last thing put on the request queue, and the   *)
(* fetch worker ends only with every request of the batch answered.        *)
(***************************************************************************)
InQueue(q, x) == \E k \in 1..Len(q) : q[k] = x

\* The fetch worker has returned from fetch_image, by the sentinel or by
\* an exception.
FetchEnded == fpc \in {"exit", "raised"}

\* The workers that have put a request and have not received a path.
Waiting == {i \in Workers : wpc[i] = "wait_image"}

\* Some request of the batch has no response yet: more workers wait than
\* there are paths on the result queue.
Unanswered == Cardinality(Waiting) > Len(resQ)

\* The sentinel is on the queue, or was taken from it, only with every
\* worker of the batch finished.
SentinelAfterWorkers ==
    (InQueue(reqQ, Sentinel) \/ fpc = "exit")
        => \A i \in Workers : wpc[i] = "done"

\* Nothing is published once the sentinel has been consumed.
SilentAfterSentinel ==
    (fpc = "exit") => (resQ' = resQ /\ fpc' \in {"exit", "off"})

\* C16: the sentinel is enqueued only after every worker of the batch has
\* finished; the fetch worker never ends while a request of the batch is
\* unanswered; after the sentinel it publishes nothing.
C16_SentinelLast ==
    /\ []SentinelAfterWorkers
    /\ [][SilentAfterSentinel]_vars
    /\ [](FetchEnded => ~Unanswered)

(***************************************************************************)
(* C17. The hypervisor's fault on a domain that is already stopped is      *)
(* passed over: destroy still removes the domain and its two files,        *)
(* shutdown does not fail and still ends, and the other domains of the     *)
(* cluster are processed all the same.                                     *)
(***************************************************************************)
ShutOff(p) == {d \in ClusterOf(p) : dom[d].state = "shutoff"}

\* The destroy task of a shut-off domain of the cluster removes its
\* definition and both of its files, and ends without an error.
DestroyPassesFault ==
    \A i \in DOMAIN dpc :
        (/\ pc = "destroy_pool" /\ dpc[i] = "run" /\ dpc'[i] # "run"
         /\ cluster[i].domain \in ShutOff(cwd))
            => /\ ~dom'[cluster[i].domain].defined
               /\ dom[cluster[i].domain].disk \notin files'
               /\ dom[cluster[i].domain].cfg \notin files'
               /\ dpc'[i] = "done"

\* shutdown of a whole cluster with a shut-off domain in it does not fail,
\* asks every running domain of the cluster to stop, and its wait loop can
\* be left.
ShutdownPassesFault ==
    (Invokes("shutdown") /\ argv' = <<>> /\ ShutOff(cwd') # {})
        => /\ outcome'.code = 0
           /\ pc' = "poll"
           /\ \A d \in ClusterOf(cwd') :
                  dom[d].state = "running" => dom'[d].req = "stop"
           /\ \E k \in 1..Len(targets') :
                  dom'[targets'[k].domain].state = "shutoff"

\* C17: destroy and shutdown pass over the fault of an already stopped
\* domain and go on with the other domains of the cluster.
C17_StoppedIsNoOp == [][DestroyPassesFault /\ ShutdownPassesFault]_vars

(***************************************************************************)
(* C18. Every caller of get_image receives the path of the image of the    *)
(* variant it asked for, so that every machine's disk image is backed by   *)
(* the base image of its own variant.                                      *)
(***************************************************************************)
\* The base image create_single_vm hands to create_disk_image for machine i.
base_image(i) == got[i]

\* C18: whatever the variants the workers of a batch ask for concurrently,
\* the path a worker has received is the path of its own machine's variant.
C18_OwnImage ==
    \A i \in Workers :
        base_image(i) # NoImage
            => base_image(i) = image_filename(machines[i].os_variant)

(***************************************************************************)
(* C19. A cache hit implies a complete image: the canonical path of a      *)
(* variant's base image holds a file only if its download, and its         *)
(* decompression where there is one, ran to completion, and no request is  *)
(* answered from a file that a failed or interrupted fetch left behind.    *)
(***************************************************************************)
\* The file at the canonical path of variant v is there and is incomplete.
Incomplete(v) ==
    image_filename(v) \in images /\ image_filename(v) \in partial

\* The download of variant v is under way.
Downloading(v) == fpc = "download" /\ fcur.os_variant = v

\* C19: apart from a download that is still under way, no file at a
\* canonical path is incomplete, and no path that was published or received
\* names an incomplete file.
C19_CacheHitComplete ==
    /\ \A v \in OsVariants : Incomplete(v) => Downloading(v)
    /\ \A k \in 1..Len(resQ) : resQ[k] \notin partial
    /\ \A i \in Workers : got[i] \notin partial

(***************************************************************************)
(* C20. create neither deadlocks nor runs for ever: when every tool and    *)
(* download succeeds and leases and ports appear, every request is         *)
(* answered, once, every machine is defined and started, the sentinel is   *)
(* sent and create exits with code 0.                                      *)
(***************************************************************************)
\* The requests on the request queue, the sentinel apart.
Queued == {k \in 1..Len(reqQ) : reqQ[k] # Sentinel}

\* The request fetch_image has taken and not answered yet.
InService == IF fpc \in {"download", "decompress"} THEN 1 ELSE 0

Requested == {i \in Workers : wpc[i] # "get_image"}

Received == {i \in Workers : wpc[i] \notin {"get_image", "wait_image"}}

\* Every request made is on the queue, in service, or has exactly one
\* response, which is on the result queue or has been received.
OneResponseEach ==
    Cardinality(Requested)
        = Cardinality(Queued) + InService + Len(resQ) + Cardinality(Received)

\* create has returned with every machine of the batch defined, started and
\* reported, the sentinel sent, and exit code 0.
CreateDone ==
    /\ pc = "returned" /\ cmd = "create" /\ outcome = Ok
    /\ \A i \in Workers :
          /\ wpc[i] = "done"
          /\ dom[machines[i].uuid].defined
          /\ dom[machines[i].uuid].state = "running"
    /\ InQueue(reqQ, Sentinel) \/ fpc = "exit"

\* C20: under fair scheduling, with every tool succeeding, each request
\* has exactly one response, each waiting worker is answered, and a create
\* that has started its pool ends as CreateDone.
C20_CreateTerminates ==
    /\ []OneResponseEach
    /\ \A i \in MachineIndexes :
          (i \in Workers /\ wpc[i] = "wait_image")
              ~> (i \in Workers /\ base_image(i) # NoImage)
    /\ (pc = "pool") ~> CreateDone

\* C20 has happened: a batch of more than one machine has ended so.
C20_Witness == CreateDone /\ Len(machines) > 1

====
